---- MODULE Spec2Model ----
(***************************************************************************)
(* Model of the medicine-instruction matcher of medguide-app:              *)
(*   src/app.py              match_instructions and its helpers, the       *)
(*                           upload and admin routes                       *)
(*   src/utils/database.py   the drug_information table and its operations *)
(*   src/utils/ocr_easyocr.py  the OCR of an uploaded image                *)
(*                                                                         *)
(* A Python str is a sequence of one-character strings, so that lower(),   *)
(* strip(), split(), the substring test and difflib's SequenceMatcher are  *)
(* computed character by character as the code computes them.  A float is  *)
(* an exact fraction <<numerator, denominator>> with denominator > 0.      *)
(***************************************************************************)
EXTENDS Integers, Sequences, FiniteSets, TLC

(***************************************************************************)
(* Characters                                                              *)
(***************************************************************************)
\* the characters of the model in code-point order (Python compares str by code point)
CodeChars ==
  << "\t", "\n", " ", "\"", "%", "'", "(", ")", ",", ".", "/", ":", ";", "<", ">",
     "A", "B", "C", "E", "G", "O", "X", "[", "]",
     "a", "b", "c", "d", "e", "f", "g", "h", "i", "j", "k", "l", "m",
     "n", "o", "p", "q", "r", "s", "t", "u", "v", "w", "x", "y", "z" >>

Ord(c) == CHOOSE i \in 1..Len(CodeChars) : CodeChars[i] = c

\* str.lower() on one character
LowerChar(c) ==
  CASE c = "A" -> "a" [] c = "B" -> "b" [] c = "C" -> "c" [] c = "E" -> "e"
    [] c = "G" -> "g" [] c = "O" -> "o" [] c = "X" -> "x" [] OTHER -> c

\* the characters str.strip() and str.split() without argument treat as whitespace
Whitespace == {" ", "\t", "\n"}

\* the argument of w.strip(".,;:()[]/%\"'") in match_instructions
PunctChars == {".", ",", ";", ":", "(", ")", "[", "]", "/", "%", "\"", "'"}

\* the character class [\s/,] of re.split(r"[\s/,]+", drug_lower)
TokenSepChars == Whitespace \cup {"/", ","}

(***************************************************************************)
(* Python str operations                                                   *)
(***************************************************************************)
lower(s) == [i \in 1..Len(s) |-> LowerChar(s[i])]

\* s[lo..hi] (1-based, inclusive), empty when hi < lo
Slice(s, lo, hi) == IF hi < lo THEN << >> ELSE SubSeq(s, lo, hi)

\* s.strip(chars): remove the characters of cs from both ends
StripChars(s, cs) ==
  LET keep == {i \in 1..Len(s) : s[i] \notin cs}
  IN  IF keep = {} THEN << >>
      ELSE LET lo == CHOOSE i \in keep : \A j \in keep : i <= j
               hi == CHOOSE i \in keep : \A j \in keep : j <= i
           IN  SubSeq(s, lo, hi)

\* s.strip()
strip(s) == StripChars(s, Whitespace)

\* the pieces of s between separator characters, empty pieces included
\* (s.split("/") is SplitOn(s, {"/"}))
RECURSIVE SplitOn(_, _)
SplitOn(s, seps) ==
  LET cut == {i \in 1..Len(s) : s[i] \in seps}
  IN  IF cut = {} THEN << s >>
      ELSE LET i == CHOOSE k \in cut : \A j \in cut : k <= j
           IN  << Slice(s, 1, i - 1) >> \o SplitOn(Slice(s, i + 1, Len(s)), seps)

\* the non-empty pieces only: s.split() is Fields(s, Whitespace)
Fields(s, seps) == SelectSeq(SplitOn(s, seps), LAMBDA p : p # << >>)

split(s) == Fields(s, Whitespace)

\* sep.join(parts) with sep = " "
RECURSIVE join(_)
join(parts) ==
  IF parts = << >> THEN << >>
  ELSE IF Len(parts) = 1 THEN parts[1]
  ELSE parts[1] \o << " " >> \o join(Tail(parts))

\* the Python test  a in b  for two str
IsSubstring(a, b) ==
  \E i \in 0..(Len(b) - Len(a)) : \A k \in 1..Len(a) : b[i + k] = a[k]

SeqToSet(q) == {q[i] : i \in 1..Len(q)}

\* a < b for two str (lexicographic by code point)
StrLess(a, b) ==
  \E k \in 1..(Len(b)) :
     /\ \A i \in 1..(k - 1) : i <= Len(a) /\ a[i] = b[i]
     /\ \/ Len(a) = k - 1
        \/ Len(a) >= k /\ Ord(a[k]) < Ord(b[k])

(***************************************************************************)
(* Fractions                                                               *)
(***************************************************************************)
Frac(n, d) == << n, d >>
FLeq(x, y) == x[1] * y[2] <= y[1] * x[2]
FLess(x, y) == x[1] * y[2] < y[1] * x[2]
FEq(x, y) == x[1] * y[2] = y[1] * x[2]
FMax(x, y) == IF FLess(x, y) THEN y ELSE x
FMul(x, y) == << x[1] * y[1], x[2] * y[2] >>

\* round(x, 3) for 0 <= x: the nearest multiple of 1/1000, a tie going to the even one
round3(x) ==
  LET q == (x[1] * 1000) \div x[2]
      r2 == 2 * ((x[1] * 1000) % x[2])
  IN  IF r2 > x[2] \/ (r2 = x[2] /\ q % 2 = 1) THEN Frac(q + 1, 1000) ELSE Frac(q, 1000)

(***************************************************************************)
(* difflib.SequenceMatcher(None, a, b).ratio()                             *)
(* (no junk; the autojunk heuristic needs len(b) >= 200)                   *)
(***************************************************************************)
\* length of the longest common run starting at a[i], b[j], inside a[..ahi], b[..bhi]
RECURSIVE RunLen(_, _, _, _, _, _)
RunLen(a, b, i, j, ahi, bhi) ==
  IF i > ahi \/ j > bhi \/ a[i] # b[j] THEN 0
  ELSE 1 + RunLen(a, b, i + 1, j + 1, ahi, bhi)

\* the runs of the largest size, none when no character matches
LongestRuns(runs) ==
  LET sizes == {m[3] : m \in runs}
      k == CHOOSE n \in sizes : \A q \in sizes : q <= n
  IN  {m \in runs : m[3] = k /\ k > 0}

\* the run that starts earliest in a and, among those, earliest in b; an empty
\* block at (alo, blo) when there is none
EarliestRun(longest, alo, blo) ==
  IF longest = {} THEN << alo, blo, 0 >>
  ELSE CHOOSE m \in longest :
         \A q \in longest : m[1] < q[1] \/ (m[1] = q[1] /\ m[2] <= q[2])

\* find_longest_match: the longest block, the earliest in a, then the earliest in b
find_longest_match(a, b, alo, ahi, blo, bhi) ==
  EarliestRun(LongestRuns({<< i, j, RunLen(a, b, i, j, ahi, bhi) >> :
                              i \in alo..ahi, j \in blo..bhi}),
              alo, blo)

\* the total size of the matching blocks (get_matching_blocks): the longest block m
\* of the range, then the blocks to the left and to the right of it
RECURSIVE MatchedChars(_, _, _, _, _, _)
RECURSIVE BlockSizes(_, _, _, _, _, _, _)
BlockSizes(a, b, alo, ahi, blo, bhi, m) ==
  IF m[3] = 0 THEN 0
  ELSE m[3] + MatchedChars(a, b, alo, m[1] - 1, blo, m[2] - 1)
            + MatchedChars(a, b, m[1] + m[3], ahi, m[2] + m[3], bhi)

MatchedChars(a, b, alo, ahi, blo, bhi) ==
  BlockSizes(a, b, alo, ahi, blo, bhi, find_longest_match(a, b, alo, ahi, blo, bhi))

\* _seq_ratio: 2.0 * matches / (len(a) + len(b)), and 1.0 for two empty str
_seq_ratio(a, b) ==
  IF Len(a) + Len(b) = 0 THEN Frac(1, 1)
  ELSE Frac(2 * MatchedChars(a, b, 1, Len(a), 1, Len(b)), Len(a) + Len(b))

(***************************************************************************)
(* Iteration over a Python set of str                                      *)
(*                                                                         *)
(* CPython walks the hash table of a set slot by slot, and the hash of a  *)
(* str is randomised once per process (PYTHONHASHSEED), so the order in    *)
(* which  for cand in variants  visits the variants is fixed within one    *)
(* process and differs from one process to the next.                       *)
(***************************************************************************)
\* the slots of the hash table of a set of variants
HashSlots == 11

RECURSIVE StrHash(_, _, _)
StrHash(seed, s, k) ==
  IF k = 0 THEN seed
  ELSE (StrHash(seed, s, k - 1) * 5 + Ord(s[k])) % HashSlots

\* v is visited before w by a process whose hash seed is seed
VisitedBefore(seed, v, w) ==
  LET hv == StrHash(seed, v, Len(v))
      hw == StrHash(seed, w, Len(w))
  IN  hv < hw \/ (hv = hw /\ StrLess(v, w))

RECURSIVE IterOrder(_, _)
IterOrder(S, seed) ==
  IF S = {} THEN << >>
  ELSE LET v == CHOOSE x \in S : \A y \in S \ {x} : VisitedBefore(seed, x, y)
       IN  << v >> \o IterOrder(S \ {v}, seed)

(***************************************************************************)
(* src/app.py: the matcher                                                 *)
(***************************************************************************)
\* _snippet without the strip
_snippet_Unstripped(text) == text

\* _snippet(text): "" for an empty text, text.strip() otherwise
_snippet(text) == IF text = << >> THEN << >> ELSE strip(text)

\* _expand_variants(name): [raised |-> FALSE, value |-> the set of variants], or
\* raised |-> TRUE when fw[0] is evaluated on an empty list (IndexError)
_expand_variants(name0) ==
  LET name == strip(name0)
      raw == SplitOn(name, {"/"})
      parts == [i \in 1..Len(raw) |-> strip(raw[i])]
      first == parts[1]
      fw == split(first)
      core == IF Len(fw) > 1 THEN join(SubSeq(fw, 1, Len(fw) - 1)) ELSE fw[1]
      last(p) == IF split(p) # << >> THEN split(p)[Len(split(p))] ELSE p
  IN  IF name = << >> THEN [raised |-> FALSE, value |-> {}]
      ELSE IF "/" \notin SeqToSet(name)
        THEN [raised |-> FALSE, value |-> {lower(name)}]
      ELSE IF fw = << >>
        THEN [raised |-> TRUE, value |-> {}]
      ELSE [raised |-> FALSE,
            value |-> {lower(name)}
                      \cup {lower(parts[i]) : i \in {j \in 1..Len(parts) : parts[j] # << >>}}
                      \cup {lower(strip(core \o << " " >> \o last(parts[i]))) : i \in 1..Len(parts)}]

\* the str literals of FORMS
FORMS ==
  { << "c", "r", "e", "a", "m" >>,
    << "g", "e", "l" >>,
    << "o", "i", "n", "t", "m", "e", "n", "t" >>,
    << "s", "h", "a", "m", "p", "o", "o" >>,
    << "s", "y", "r", "u", "p" >>,
    << "t", "a", "b", "l", "e", "t" >>,
    << "c", "a", "p", "s", "u", "l", "e" >>,
    << "s", "o", "l", "u", "t", "i", "o", "n" >>,
    << "o", "i", "n", "t", "m", "e", "n", "t", "/", "c", "r", "e", "a", "m" >>,
    << "o", "i", "n", "t", "m", "e", "n", "t", "/", "g", "e", "l" >> }

\* text_words: the whitespace-separated pieces of the lowercased text, each stripped
\* of the punctuation characters
TextWords(extracted_text) ==
  LET ws == split(lower(extracted_text))
  IN  [i \in 1..Len(ws) |-> StripChars(ws[i], PunctChars)]

\* drug_tokens, drug_core_tokens, matched_tokens, keyword_match_ratio
DrugTokens(drug) == {strip(t) : t \in SeqToSet(Fields(lower(drug), TokenSepChars))} \ {<< >>}

DrugCoreTokens(drug) ==
  IF DrugTokens(drug) \ FORMS = {} THEN DrugTokens(drug) ELSE DrugTokens(drug) \ FORMS

\* matched_tokens without the intersection with the text tokens
MatchedTokens_NoIntersection(drug, text_words) == DrugCoreTokens(drug)

MatchedTokens(drug, text_words) == DrugCoreTokens(drug) \cap SeqToSet(text_words)

KeywordMatchRatio(drug, text_words) ==
  IF DrugCoreTokens(drug) # {}
    THEN Frac(Cardinality(MatchedTokens(drug, text_words)), Cardinality(DrugCoreTokens(drug)))
    ELSE Frac(0, 1)

\* the tokens of one candidate variant
CandTokens(cand) == SeqToSet(Fields(cand, Whitespace))

\* the skip without the test for a bare form word
CandSkipped_EmptyOnly(cand) == cand = << >>

\* the candidate is skipped: empty, or a bare form word
CandSkipped(cand) ==
  \/ cand = << >>
  \/ Cardinality(CandTokens(cand)) = 1 /\ CandTokens(cand) \subseteq FORMS

\* the largest of a non-empty set of fractions
FMaxOf(S) == CHOOSE r \in S : \A q \in S : FLeq(q, r)

\* the windows of window_size words of text_words (one window at least), joined
Windows(text_words, window_size) ==
  {join(Slice(text_words, i,
              IF i + window_size - 1 < Len(text_words)
                THEN i + window_size - 1 ELSE Len(text_words))) :
     i \in 1..(IF Len(text_words) - window_size + 1 > 1
                 THEN Len(text_words) - window_size + 1 ELSE 1)}

\* the best ratio of the candidate against the windows of text_words and the whole text
MaxNgramRatio(cand, text_words) ==
  FMaxOf({_seq_ratio(cand, w) :
            w \in Windows(text_words,
                          IF Cardinality(CandTokens(cand)) > 1
                            THEN Cardinality(CandTokens(cand)) ELSE 1)
                  \cup {join(text_words)}})

\* the score of one candidate without the exact-match branch
CandScore_NoExactMatch(cand, text_words, keyword_match_ratio) ==
  LET overlap == Frac(Cardinality(CandTokens(cand) \cap SeqToSet(text_words)),
                      Cardinality(CandTokens(cand)))
  IN  FMax(MaxNgramRatio(cand, text_words),
           FMax(FMul(overlap, Frac(9, 10)), FMul(keyword_match_ratio, Frac(85, 100))))

\* the score of one candidate
CandScore(cand, text_words, keyword_match_ratio) ==
  IF IsSubstring(cand, join(text_words)) THEN Frac(1, 1)
  ELSE LET overlap == Frac(Cardinality(CandTokens(cand) \cap SeqToSet(text_words)),
                           Cardinality(CandTokens(cand)))
       IN  FMax(MaxNgramRatio(cand, text_words),
                FMax(FMul(overlap, Frac(9, 10)), FMul(keyword_match_ratio, Frac(85, 100))))

\* one scored candidate with best_variant left as it is
UpdateBest_VariantNotRecorded(st, cand, score) ==
  [st EXCEPT !.best_score = FMax(st.best_score, score), !.any_candidate = TRUE]

\* one scored candidate: best_score and best_variant follow a strictly better score;
\* st = [best_score, best_variant (<< >> for None, << v >> for v), any_candidate]
UpdateBest(st, cand, score) ==
  IF FLess(st.best_score, score)
    THEN [best_score |-> score, best_variant |-> << cand >>, any_candidate |-> TRUE]
    ELSE [st EXCEPT !.any_candidate = TRUE]

\* one pass of the loop body for cand
VisitCand(st, cand, text_words, keyword_match_ratio) ==
  IF CandSkipped(cand) THEN st
  ELSE UpdateBest(st, cand, CandScore(cand, text_words, keyword_match_ratio))

\* the loop  for cand in variants  from position k of the visiting order; it ends
\* (break) once best_score >= 0.999
RECURSIVE ScanVariants(_, _, _, _, _)
RECURSIVE ScanOn(_, _, _, _, _)
ScanOn(order, k, st, text_words, keyword_match_ratio) ==
  IF FLeq(Frac(999, 1000), st.best_score) THEN st
  ELSE ScanVariants(order, k + 1, st, text_words, keyword_match_ratio)

ScanVariants(order, k, st, text_words, keyword_match_ratio) ==
  IF k > Len(order) THEN st
  ELSE ScanOn(order, k,
              VisitCand(st, lower(strip(order[k])), text_words, keyword_match_ratio),
              text_words, keyword_match_ratio)

\* final_score without the raise
FinalScore_NoBoost(best_score, keyword_match_ratio) == best_score

\* final_score: best_score raised by the keyword match ratio
FinalScore(best_score, keyword_match_ratio) ==
  IF FLeq(Frac(1, 1), keyword_match_ratio) THEN FMax(best_score, Frac(95, 100))
  ELSE IF FLeq(Frac(8, 10), keyword_match_ratio) THEN FMax(best_score, Frac(85, 100))
  ELSE best_score

\* the result of the loop body over one catalog entry, up to final_score:
\*   kind "skip"  : continue (empty name, no matched token, or no candidate)
\*   kind "raise" : _expand_variants raised
\*   kind "score" : final_score and best_variant are set
SkipEntry == [kind |-> "skip", final_score |-> Frac(0, 1), best_variant |-> << >>]

\* after the loop over the variants: st is what the loop leaves
ScoredEntry(st, keyword_match_ratio) ==
  IF ~st.any_candidate THEN SkipEntry
  ELSE [kind |-> "score", final_score |-> FinalScore(st.best_score, keyword_match_ratio),
        best_variant |-> st.best_variant]

\* from  variants = _expand_variants(drug)  on: ev is what _expand_variants returned
ScoreVariants(ev, text_words, keyword_match_ratio, seed) ==
  IF ev.raised THEN [SkipEntry EXCEPT !.kind = "raise"]
  ELSE ScoredEntry(ScanVariants(IterOrder(ev.value, seed), 1,
                                [best_score |-> Frac(0, 1), best_variant |-> << >>,
                                 any_candidate |-> FALSE],
                                text_words, keyword_match_ratio),
                   keyword_match_ratio)

\* the loop body without the test of matched_tokens
ScoreEntry_NoGate(drug, text_words, seed) ==
  IF drug = << >> \/ strip(drug) = << >> THEN SkipEntry
  ELSE ScoreVariants(_expand_variants(drug), text_words,
                     KeywordMatchRatio(drug, text_words), seed)

ScoreEntry(drug, text_words, seed) ==
  IF drug = << >> \/ strip(drug) = << >> THEN SkipEntry
  ELSE IF MatchedTokens(drug, text_words) = {} THEN SkipEntry
  ELSE ScoreVariants(_expand_variants(drug), text_words,
                     KeywordMatchRatio(drug, text_words), seed)

\* a sort key of (-x[3], x[0]) with the names compared the other way round
SortsBefore_NameDescending(x, y) ==
  \/ FLess(y[4], x[4])
  \/ FEq(x[4], y[4]) /\ StrLess(y[1], x[1])

\* results.sort(key=lambda x: (-x[3], x[0])): x comes before y
SortsBefore(x, y) ==
  \/ FLess(y[4], x[4])
  \/ FEq(x[4], y[4]) /\ StrLess(x[1], y[1])

\* list.sort is stable: of two tuples with equal keys the one appended first stays first
RECURSIVE SortResults(_)
SortResults(results) ==
  IF results = << >> THEN << >>
  ELSE LET i == CHOOSE k \in 1..Len(results) :
                  \A j \in 1..Len(results) :
                     j # k => \/ SortsBefore(results[k], results[j])
                              \/ ~SortsBefore(results[j], results[k]) /\ k < j
           rest == [j \in 1..(Len(results) - 1) |-> IF j < i THEN results[j] ELSE results[j + 1]]
       IN  << results[i] >> \o SortResults(rest)

\* the return without the slice
Truncate_None(results, max_results) == results

\* results[:max_results]
Truncate(results, max_results) ==
  IF max_results >= 0
    THEN Slice(results, 1, IF max_results < Len(results) THEN max_results ELSE Len(results))
    ELSE Slice(results, 1, Len(results) + max_results)

\* the end of the loop body: the tuple of the entry is appended when final_score
\* reaches the cutoff and a token matched; e is the result of ScoreEntry
AppendKept(results, drug, instr, e, text_words, cutoff) ==
  IF e.kind = "score" /\ FLeq(cutoff, e.final_score) /\ MatchedTokens(drug, text_words) # {}
    THEN Append(results, << drug,
                            IF e.best_variant # << >> THEN e.best_variant[1] ELSE drug,
                            _snippet(instr),
                            round3(e.final_score) >>)
    ELSE results

\* the loop over instructions_db.items() from entry k on; acc is
\* [raised, results]: results holds the tuples appended so far
RECURSIVE MatchLoop(_, _, _, _, _, _)
RECURSIVE LoopOn(_, _, _, _, _, _, _)
LoopOn(instructions_db, k, acc, text_words, cutoff, seed, e) ==
  IF e.kind = "raise" THEN [acc EXCEPT !.raised = TRUE]
  ELSE MatchLoop(instructions_db, k + 1,
                 [acc EXCEPT !.results =
                    AppendKept(@, instructions_db[k][1], instructions_db[k][2], e,
                               text_words, cutoff)],
                 text_words, cutoff, seed)

MatchLoop(instructions_db, k, acc, text_words, cutoff, seed) ==
  IF k > Len(instructions_db) THEN acc
  ELSE LoopOn(instructions_db, k, acc, text_words, cutoff, seed,
              ScoreEntry(instructions_db[k][1], text_words, seed))

\* the slice taken before the sort
SortedAndTruncated_TruncateFirst(acc, max_results) ==
  IF acc.raised THEN [raised |-> TRUE, ret |-> << >>, kept |-> << >>]
  ELSE [raised |-> FALSE, ret |-> SortResults(Truncate(acc.results, max_results)),
        kept |-> acc.results]

\* the end of match_instructions: the exception, or the sorted and truncated list;
\* kept is the list results as the loop left it, before line 182 sorts it
SortedAndTruncated(acc, max_results) ==
  IF acc.raised THEN [raised |-> TRUE, ret |-> << >>, kept |-> << >>]
  ELSE [raised |-> FALSE, ret |-> Truncate(SortResults(acc.results), max_results),
        kept |-> acc.results]

\* match_instructions on the snapshot instructions_db returned by get_all_drugs_dict():
\* [raised |-> an exception left the call, ret |-> the returned list, kept |-> results
\* before the sort]
match_instructions(instructions_db, extracted_text, cutoff, max_results, seed) ==
  IF extracted_text = << >> THEN [raised |-> FALSE, ret |-> << >>, kept |-> << >>]
  ELSE SortedAndTruncated(
         MatchLoop(instructions_db, 1, [raised |-> FALSE, results |-> << >>],
                   TextWords(extracted_text), cutoff, seed),
         max_results)

(***************************************************************************)
(* Bounds and inputs of the model                                          *)
(***************************************************************************)
\* ids AUTOINCREMENT hands out at most (so the table holds at most MaxId rows),
\* hash seeds a process can start with
MaxId == 2
NumSeeds == 2
\* requests the threaded server handles at the same time
NumThreads == 2

Seeds == 0..(NumSeeds - 1)
Threads == 1..NumThreads

\* drug names handed to add_drug / update_drug / load_from_docx_to_db
NameABCGel == << "A", " ", "B", " ", "C", " ", "G", "e", "l" >>
NameSlashA == << "/", "A" >>
NameCream == << "C", "r", "e", "a", "m" >>
NameACreamGel == << "A", " ", "C", "r", "e", "a", "m", "/", "G", "e", "l" >>
NameOintmentGel == << "O", "i", "n", "t", "m", "e", "n", "t", "/", "G", "e", "l" >>
NameBlank == << " " >>

DrugInputs ==
  {NameABCGel, NameSlashA, NameCream, NameACreamGel, NameOintmentGel, NameBlank}

\* drug names parsed from an imported document
DocxNames == {NameOintmentGel}

\* instruction texts: with white space around (add_drug and update_drug strip it, a
\* DOCX table cell is stored as it is)
InstrPadded == << " ", "x", "\n" >>
InstrInputs == {InstrPadded}

\* texts handed to match_instructions
TextA == << "a" >>
TextACreamAGel == << "A", " ", "C", "r", "e", "a", "m", ",", " ", "(", "a", " ", "g", "e", "l", ")" >>
TextXaBCGel == << "x", "a", " ", "b", " ", "c", " ", "g", "e", "l" >>
TextCBA == << "c", " ", "b", " ", "a" >>
TextOintmentGelGel ==
  << "o", "i", "n", "t", "m", "e", "n", "t", "/", "g", "e", "l", " ", "g", "e", "l" >>
TextEmpty == << >>
TextSpaces == << " ", "\t" >>
TextParens == << "(", " ", ")" >>

TextInputs ==
  {TextA, TextACreamAGel, TextXaBCGel, TextCBA, TextOintmentGelGel, TextEmpty,
   TextSpaces, TextParens}

\* what extract_text_from_image returns for an image it reads (line 182 or 296), for
\* an image neither engine reads (line 299), and when processing raises (line 190,
\* with "x" for str(e))
OcrTexts == {TextOintmentGelGel}
MsgUnreadable ==
  << "C", "o", "u", "l", "d", " ", "n", "o", "t", " ", "e", "x", "t", "r", "a", "c", "t", " ",
     "r", "e", "a", "d", "a", "b", "l", "e", " ", "t", "e", "x", "t", " ", "f", "r", "o", "m",
     " ", "i", "m", "a", "g", "e" >>
MsgError ==
  << "E", "r", "r", "o", "r", " ", "p", "r", "o", "c", "e", "s", "s", "i", "n", "g", " ",
     "i", "m", "a", "g", "e", ":", " ", "x" >>

\* the drug field of the admin forms
AdminNames == {NameOintmentGel}

\* the search_text field of the patient form
SearchTexts == {<< " " >> \o TextOintmentGelGel}

\* (cutoff, max_results): the arguments of both call sites (0.25, 10), the default
\* cutoff 0.6, and a cutoff that is not a multiple of 0.001 with max_results = 1
ArgInputs ==
  { << Frac(25, 100), 10 >>, << Frac(6, 10), 10 >>, << Frac(2833, 10000), 1 >> }

(***************************************************************************)
(* State                                                                   *)
(***************************************************************************)
VARIABLES
  rows,      \* table drug_information: a set of [id, drug, instructions]
  nextId,    \* the id AUTOINCREMENT gives to the next inserted row
  hashSeed,  \* the str hash seed of the running process
  last,      \* the call of match_instructions just made and what it returned
  pc,        \* for every request thread, where patient_upload stands
  frame,     \* for every request thread, the local variables of patient_upload
  _reader,   \* the global _reader of ocr_easyocr: 0 for None, else the Reader object
  made       \* how many times easyocr.Reader(...) was instantiated

vars == << rows, nextId, hashSeed, last, pc, frame, _reader, made >>

\* the state of the request threads and of the OCR module
ServerVars == << pc, frame, _reader, made >>

NoCall == [op |-> "none"]

\* the locals of patient_upload before anything is assigned
NoFrame ==
  [text |-> << >>, failed |-> FALSE, reader |-> 0, instructions_db |-> << >>,
   page |-> "none", matches |-> << >>]

\* init_database() on a fresh file, at the start of the process
Init ==
  /\ rows = {}
  /\ nextId = 1
  /\ hashSeed \in Seeds
  /\ last = NoCall
  /\ pc = [t \in Threads |-> "idle"]
  /\ frame = [t \in Threads |-> NoFrame]
  /\ _reader = 0
  /\ made = 0

(***************************************************************************)
(* src/utils/database.py                                                   *)
(***************************************************************************)
\* SELECT drug, instructions ... ORDER BY drug, as a list of (drug, instructions)
RECURSIVE OrderByDrug(_)
OrderByDrug(R) ==
  IF R = {} THEN << >>
  ELSE LET r == CHOOSE x \in R : \A y \in R \ {x} : StrLess(x.drug, y.drug)
       IN  << << r.drug, r.instructions >> >> \o OrderByDrug(R \ {r})

\* get_all_drugs_dict(): the keys are unique (drug is UNIQUE), in the order of the SELECT
get_all_drugs_dict == OrderByDrug(rows)

\* add_drug(drug, instructions): INSERT of the stripped values; an existing drug
\* raises IntegrityError, which is caught (return False) and changes nothing
add_drug(drug, instructions) ==
  /\ \/ /\ \A r \in rows : r.drug # strip(drug)
        /\ nextId <= MaxId
        /\ rows' = rows \cup {[id |-> nextId, drug |-> strip(drug),
                               instructions |-> strip(instructions)]}
        /\ nextId' = nextId + 1
     \/ /\ \E r \in rows : r.drug = strip(drug)
        /\ UNCHANGED << rows, nextId >>
  /\ last' = NoCall
  /\ UNCHANGED << hashSeed, ServerVars >>

\* update_drug(drug_id, drug, instructions): UPDATE ... WHERE id = drug_id; a drug
\* that another row holds raises IntegrityError, caught (return False)
update_drug(drug_id, drug, instructions) ==
  /\ \/ /\ \A r \in rows : r.id # drug_id => r.drug # strip(drug)
        /\ rows' = {IF r.id = drug_id
                      THEN [r EXCEPT !.drug = strip(drug), !.instructions = strip(instructions)]
                      ELSE r : r \in rows}
     \/ /\ \E r \in rows : r.id # drug_id /\ r.drug = strip(drug)
        /\ \E r \in rows : r.id = drug_id
        /\ UNCHANGED rows
  /\ last' = NoCall
  /\ UNCHANGED << nextId, hashSeed, ServerVars >>

\* delete_drug(drug_id): DELETE ... WHERE id = drug_id
delete_drug(drug_id) ==
  /\ rows' = {r \in rows : r.id # drug_id}
  /\ last' = NoCall
  /\ UNCHANGED << nextId, hashSeed, ServerVars >>

\* load_from_docx_to_db(docx_path): one INSERT OR REPLACE for the entry parsed from
\* the document; a row holding the same drug is deleted first
load_from_docx_to_db(drug, html_instr) ==
  /\ nextId <= MaxId
  /\ rows' = {r \in rows : r.drug # drug}
               \cup {[id |-> nextId, drug |-> drug, instructions |-> html_instr]}
  /\ nextId' = nextId + 1
  /\ last' = NoCall
  /\ UNCHANGED << hashSeed, ServerVars >>

(***************************************************************************)
(* Calls of match_instructions                                             *)
(***************************************************************************)
\* what is kept of a call: its arguments, the snapshot it read, what it returned (r),
\* the entries it kept before sorting, and in before what the preceding call returned
\* when this call repeats it
CallRecord(text, cutoff, max_results, snap, r) ==
  [op |-> "match_instructions", text |-> text, cutoff |-> cutoff,
   max_results |-> max_results, snapshot |-> snap, raised |-> r.raised, ret |-> r.ret,
   kept |-> r.kept,
   before |-> IF last.op = "match_instructions"
                THEN << [raised |-> last.raised, ret |-> last.ret] >>
                ELSE << >>]

\* match_instructions run by the process on the snapshot it reads first
CallOn(text, cutoff, max_results, snap) ==
  CallRecord(text, cutoff, max_results, snap,
             match_instructions(snap, text, cutoff, max_results, hashSeed))

\* a call with the given arguments on the current table
Call(text, cutoff, max_results) ==
  /\ last' = CallOn(text, cutoff, max_results, get_all_drugs_dict)
  /\ UNCHANGED << rows, nextId, hashSeed, ServerVars >>

\* a first call
Match(text, cutoff, max_results) ==
  /\ last.op = "none"
  /\ Call(text, cutoff, max_results)

\* the same call a second time
MatchAgain ==
  /\ last.op = "match_instructions"
  /\ last.before = << >>
  /\ Call(last.text, last.cutoff, last.max_results)

\* the process is restarted: str hashes are randomised anew, the table is on disk
Restart ==
  /\ hashSeed' \in Seeds \ {hashSeed}
  /\ UNCHANGED << rows, nextId, last, ServerVars >>

AddDrug == \E d \in DrugInputs, i \in InstrInputs : add_drug(d, i)
UpdateDrug == \E k \in 1..MaxId, d \in DrugInputs, i \in InstrInputs : update_drug(k, d, i)
DeleteDrug == \E k \in 1..MaxId : delete_drug(k)
LoadFromDocx == \E d \in DocxNames, i \in InstrInputs : load_from_docx_to_db(d, i)
MatchInstructions == \E t \in TextInputs, a \in ArgInputs : Match(t, a[1], a[2])

Next ==
  \/ AddDrug
  \/ UpdateDrug
  \/ DeleteDrug
  \/ LoadFromDocx
  \/ MatchInstructions
  \/ MatchAgain
  \/ Restart

Spec == Init /\ [][Next]_vars

(***************************************************************************)
(* The threaded server: patient_upload requests step by step, interleaved  *)
(* with one another and with the admin routes                              *)
(***************************************************************************)
\* EASYOCR_AVAILABLE: the import of easyocr succeeded
EASYOCR_AVAILABLE == TRUE

\* thread t moves to position p with its locals set by the record f
Goto(t, p, f) ==
  /\ pc' = [pc EXCEPT ![t] = p]
  /\ frame' = [frame EXCEPT ![t] = f]

\* patient_upload receives an allowed file, and extract_text_from_image opens the
\* image (lines 50-58): it goes on to _get_reader, or an exception is caught at line
\* 188 and the message of line 190 is returned as the extracted text
OpenImage(t) ==
  /\ pc[t] = "idle"
  /\ \/ Goto(t, IF EASYOCR_AVAILABLE THEN "get_reader" ELSE "readtext", frame[t])
     \/ Goto(t, "match", [frame[t] EXCEPT !.text = MsgError, !.failed = TRUE])
  /\ UNCHANGED << rows, nextId, hashSeed, last, _reader, made >>

\* _get_reader, line 33: the test  _reader is None and EASYOCR_AVAILABLE ; when it
\* fails line 37 returns the global
GetReaderTest(t) ==
  /\ pc[t] = "get_reader"
  /\ IF _reader = 0 /\ EASYOCR_AVAILABLE
       THEN Goto(t, "make_reader", frame[t])
       ELSE Goto(t, "readtext", [frame[t] EXCEPT !.reader = _reader])
  /\ UNCHANGED << rows, nextId, hashSeed, last, _reader, made >>

\* _get_reader, lines 35-37: a Reader is constructed, assigned to the global and
\* returned
MakeReader(t) ==
  /\ pc[t] = "make_reader"
  /\ made' = made + 1
  /\ _reader' = made + 1
  /\ Goto(t, "readtext", [frame[t] EXCEPT !.reader = made + 1])
  /\ UNCHANGED << rows, nextId, hashSeed, last >>

\* the rest of extract_text_from_image: one of the engines reads a text (line 182 or
\* 296), or neither does and the message of line 299 is returned
ReadText(t) ==
  /\ pc[t] = "readtext"
  /\ \/ \E text \in OcrTexts :
          Goto(t, "match", [frame[t] EXCEPT !.text = text, !.reader = 0])
     \/ Goto(t, "match", [frame[t] EXCEPT !.text = MsgUnreadable, !.failed = TRUE,
                                           !.reader = 0])
  /\ UNCHANGED << rows, nextId, hashSeed, last, _reader, made >>

\* the snapshot the running call reads from
SnapshotRead_Live(t) == get_all_drugs_dict

\* the snapshot the running call reads from: its local instructions_db
SnapshotRead(t) == frame[t].instructions_db

\* patient_upload line 203 or patient_search line 228 calls match_instructions, whose
\* line 85 reads the table
TakeSnapshot(t) ==
  /\ pc[t] = "match"
  /\ Goto(t, "score", [frame[t] EXCEPT !.instructions_db = get_all_drugs_dict])
  /\ UNCHANGED << rows, nextId, hashSeed, last, _reader, made >>

\* the page the route answers with: results.html with the matches (lines 206, 230),
\* or the redirect of line 212 after an exception; r is what match_instructions did
Rendered(f, r) ==
  IF r.raised THEN [f EXCEPT !.page = "error"]
  ELSE [f EXCEPT !.page = "results", !.matches = r.ret]

\* match_instructions lines 87-183 on the snapshot, then the answer
ScoreAndRender(t) ==
  /\ pc[t] = "score"
  /\ Goto(t, "done",
          Rendered(frame[t],
                   match_instructions(SnapshotRead(t), frame[t].text, Frac(25, 100), 10,
                                      hashSeed)))
  /\ UNCHANGED << rows, nextId, hashSeed, last, _reader, made >>

\* the response is sent and the thread takes the next request
Respond(t) ==
  /\ pc[t] = "done"
  /\ Goto(t, "idle", NoFrame)
  /\ UNCHANGED << rows, nextId, hashSeed, last, _reader, made >>

\* the admin routes: admin_add and admin_update strip the form fields and refuse an
\* empty one; admin_import_docx hands the document to load_from_docx_to_db
admin_add ==
  \E d \in AdminNames, i \in InstrInputs :
     /\ strip(d) # << >> /\ strip(i) # << >>
     /\ add_drug(strip(d), strip(i))

admin_update ==
  \E k \in 1..MaxId, d \in AdminNames, i \in InstrInputs :
     /\ strip(d) # << >> /\ strip(i) # << >>
     /\ update_drug(k, strip(d), strip(i))

admin_delete == \E k \in 1..MaxId : delete_drug(k)

admin_import_docx == \E d \in DocxNames, i \in InstrInputs : load_from_docx_to_db(d, i)

NextServer ==
  \/ \E t \in Threads : OpenImage(t)
  \/ \E t \in Threads : GetReaderTest(t)
  \/ \E t \in Threads : MakeReader(t)
  \/ \E t \in Threads : ReadText(t)
  \/ \E t \in Threads : TakeSnapshot(t)
  \/ \E t \in Threads : ScoreAndRender(t)
  \/ \E t \in Threads : Respond(t)
  \/ admin_add
  \/ admin_update
  \/ admin_delete
  \/ admin_import_docx

SpecServer == Init /\ [][NextServer]_vars

\* patient_search (lines 219-228): the form text is stripped, an empty one is refused,
\* and match_instructions is called with it
patient_search(t) ==
  /\ pc[t] = "idle"
  /\ \E search_text \in SearchTexts :
        /\ strip(search_text) # << >>
        /\ Goto(t, "match", [frame[t] EXCEPT !.text = strip(search_text)])
  /\ UNCHANGED << rows, nextId, hashSeed, last, _reader, made >>

\* the text searches of the threaded server, interleaved with the admin routes
NextSearch ==
  \/ \E t \in Threads : patient_search(t)
  \/ \E t \in Threads : TakeSnapshot(t)
  \/ \E t \in Threads : ScoreAndRender(t)
  \/ \E t \in Threads : Respond(t)
  \/ admin_add
  \/ admin_update
  \/ admin_delete
  \/ admin_import_docx

SpecSearch == Init /\ [][NextSearch]_vars

(***************************************************************************)
(* Properties of match_instructions                                        *)
(***************************************************************************)
\* the last step was a call of match_instructions that returned a list
Returned == last.op = "match_instructions" /\ ~last.raised

\* the tokens of the normalised text of the last call
LastWords == SeqToSet(TextWords(last.text))

\* the instructions the snapshot of the last call stores for a drug
StoredInstr(drug) ==
  LET k == CHOOSE j \in 1..Len(last.snapshot) : last.snapshot[j][1] = drug
  IN  last.snapshot[k][2]

InSnapshot(drug) == \E j \in 1..Len(last.snapshot) : last.snapshot[j][1] = drug

\* the name is one form word: every variant of it is a bare form word
SingleFormWord(drug) ==
  /\ "/" \notin SeqToSet(drug)
  /\ lower(strip(drug)) \in FORMS

\* C1: every returned tuple has a reported (rounded) score >= cutoff.
C1_ReportedScoreAtLeastCutoff ==
  Returned => \A i \in 1..Len(last.ret) : FLeq(last.cutoff, last.ret[i][4])

\* C2 as claimed: every returned entry shares a token of its name that is not in
\* FORMS with the text tokens.
C2_SharesNonFormToken ==
  Returned => \A i \in 1..Len(last.ret) :
                (DrugTokens(last.ret[i][1]) \ FORMS) \cap LastWords # {}

\* C2 as amended: every returned entry shares a core token with the text tokens, a
\* core token being a token of the name that is not in FORMS or, when every token of
\* the name is in FORMS, any token of the name.
C2_SharesCoreToken ==
  Returned => \A i \in 1..Len(last.ret) :
                LET tokens == DrugTokens(last.ret[i][1])
                    core == IF tokens \subseteq FORMS THEN tokens ELSE tokens \ FORMS
                IN  core \cap LastWords # {}

\* an entry whose name is made of form words only is returned
C2_Witness ==
  /\ Returned
  /\ \E i \in 1..Len(last.ret) : DrugTokens(last.ret[i][1]) \subseteq FORMS

\* C3: no exception leaves match_instructions, whatever the names of the catalog.
C3_NoExceptionPropagates ==
  last.op = "match_instructions" => ~last.raised

\* C4: two calls with the same text, snapshot, cutoff and max_results return the
\* same list, the matched variant of every result included.
C4_SameCallSameOutput ==
  (last.op = "match_instructions" /\ last.before # << >>)
    => last.before[1] = [raised |-> last.raised, ret |-> last.ret]

\* C5 as claimed: a returned entry whose lowercased, trimmed name is a substring of
\* text_join has score 1.0.
C5_SubstringScoresOne ==
  Returned => \A i \in 1..Len(last.ret) :
                IsSubstring(lower(strip(last.ret[i][1])), join(TextWords(last.text)))
                  => FEq(last.ret[i][4], Frac(1, 1))

\* C5 as amended: a returned entry whose lowercased, trimmed name is a substring of
\* text_join, is not a bare form word (one token that is in FORMS) and is shorter
\* than 200 characters, has score 1.0.
C5_SubstringNotBareFormScoresOne ==
  Returned => \A i \in 1..Len(last.ret) :
                LET cand == lower(strip(last.ret[i][1]))
                IN  (/\ IsSubstring(cand, join(TextWords(last.text)))
                     /\ ~(Cardinality(SeqToSet(split(cand))) = 1 /\ cand \in FORMS)
                     /\ Len(cand) < 200)
                      => FEq(last.ret[i][4], Frac(1, 1))

\* the name is a substring of the text that starts inside a token of the text
C5_Witness ==
  /\ Returned
  /\ last.text = TextXaBCGel
  /\ \E i \in 1..Len(last.ret) :
        last.ret[i][1] = NameABCGel /\ FEq(last.ret[i][4], Frac(1, 1))

\* C6: a returned entry all of whose core tokens are text tokens has a score of at
\* least 0.95.
C6_AllCoreTokensAtLeast095 ==
  Returned => \A i \in 1..Len(last.ret) :
                LET tokens == DrugTokens(last.ret[i][1])
                    core == IF tokens \subseteq FORMS THEN tokens ELSE tokens \ FORMS
                IN  core \subseteq LastWords => FLeq(Frac(95, 100), last.ret[i][4])

\* all core tokens are in the text in another order, and the score is the 0.95 floor
C6_Witness ==
  /\ Returned
  /\ last.text = TextCBA
  /\ \E i \in 1..Len(last.ret) :
        last.ret[i][1] = NameABCGel /\ FEq(last.ret[i][4], Frac(95, 100))

\* C7: the returned list is in descending order of score, and two neighbours of
\* equal score are in ascending order of name.
C7_SortedByScoreThenName ==
  Returned => \A i \in 1..(Len(last.ret) - 1) :
                \/ FLess(last.ret[i + 1][4], last.ret[i][4])
                \/ FEq(last.ret[i + 1][4], last.ret[i][4])
                   /\ StrLess(last.ret[i][1], last.ret[i + 1][1])

\* two results of equal score
C7_Witness ==
  /\ Returned
  /\ Len(last.ret) = 2
  /\ FEq(last.ret[1][4], last.ret[2][4])

\* C8: for max_results > 0 the returned list has at most max_results elements.
C8_AtMostMaxResults ==
  (Returned /\ last.max_results > 0) => Len(last.ret) <= last.max_results

\* a call that kept more entries than max_results
C8_Witness ==
  /\ Returned
  /\ last.max_results = 1
  /\ Len(last.ret) = 1
  /\ Len(match_instructions(last.snapshot, last.text, last.cutoff, 10, hashSeed).ret) = 2

\* C9 as claimed: an entry all of whose name tokens are in FORMS is never returned.
C9_AllFormNameNeverReturned ==
  Returned => \A i \in 1..Len(last.ret) :
                ~(DrugTokens(last.ret[i][1]) \subseteq FORMS)

\* C9 as amended: an entry whose name is one form word without "/" (its lowercased,
\* trimmed name is in FORMS) is never returned.
C9_SingleFormWordNeverReturned ==
  Returned => \A i \in 1..Len(last.ret) : ~SingleFormWord(last.ret[i][1])

\* the catalog holds "Cream", the text has the token "cream", and a list is returned
C9_Witness ==
  /\ Returned
  /\ InSnapshot(NameCream)
  /\ << "c", "r", "e", "a", "m" >> \in LastWords

\* C10 as claimed: the payload of a result is the instructions stored for its name.
C10_PayloadAsStored ==
  Returned => \A i \in 1..Len(last.ret) :
                last.ret[i][3] = StoredInstr(last.ret[i][1])

\* C10 as amended: the payload of a result is the instructions stored for its name
\* without the white space at both ends.
C10_PayloadStripped ==
  Returned => \A i \in 1..Len(last.ret) :
                last.ret[i][3] = StripChars(StoredInstr(last.ret[i][1]), Whitespace)

\* a result whose stored instructions have white space at both ends
C10_Witness ==
  /\ Returned
  /\ \E i \in 1..Len(last.ret) : StoredInstr(last.ret[i][1]) = InstrPadded

\* the text has no token: it is empty, or every piece of it is empty once stripped
NoToken(text) == \A w \in SeqToSet(TextWords(text)) : w = << >>

\* C11: a call whose text is empty, or normalises to no non-empty token (white space
\* only, punctuation only), returns the empty list and raises nothing, for every
\* catalog, cutoff and max_results.
C11_NoTokenReturnsEmptyList ==
  (last.op = "match_instructions" /\ NoToken(last.text))
    => (~last.raised /\ last.ret = << >>)

\* a punctuation-only text on a catalog holding a name that starts with "/"
C11_Witness ==
  /\ last.op = "match_instructions"
  /\ last.text = TextParens
  /\ InSnapshot(NameSlashA)
  /\ last.ret = << >>

\* C14: text_words never holds an empty str, so text_join has no leading, trailing or
\* doubled space.
C14_NoEmptyToken ==
  last.op = "match_instructions" =>
    LET text_words == TextWords(last.text)
        text_join == join(text_words)
    IN  /\ << >> \notin SeqToSet(text_words)
        /\ text_join = << >> \/ (text_join[1] # " " /\ text_join[Len(text_join)] # " ")
        /\ ~IsSubstring(<< " ", " " >>, text_join)

\* the set of variants the claim gives for a name that contains "/"
C15_ClaimedVariants(name0) ==
  LET name == strip(name0)
      raw == SplitOn(name, {"/"})
      segments == {strip(raw[i]) : i \in 1..Len(raw)}
      words(p) == split(p)
      fw == words(strip(raw[1]))
      core == IF Len(fw) > 1 THEN join(SubSeq(fw, 1, Len(fw) - 1))
              ELSE IF Len(fw) = 1 THEN fw[1] ELSE << >>
      lastword(p) == IF words(p) = << >> THEN << >> ELSE words(p)[Len(words(p))]
  IN  {lower(name)}
        \cup {lower(p) : p \in segments \ {<< >>}}
        \cup {lower(strip(core \o << " " >> \o lastword(p))) : p \in segments}

\* C15: for every stored name that is not empty once trimmed, _expand_variants
\* returns a non-empty set that holds the lowercased trimmed name, and for a name
\* with "/" the set is that name, the non-empty segments and "core last" of every
\* segment.
C15_VariantsOfEveryName ==
  \A r \in rows :
     strip(r.drug) # << >> =>
       LET ev == _expand_variants(r.drug)
       IN  /\ ~ev.raised
           /\ ev.value # {}
           /\ lower(strip(r.drug)) \in ev.value
           /\ "/" \in SeqToSet(r.drug) => ev.value = C15_ClaimedVariants(r.drug)

\* x is better than y: a higher score, or the same score and a smaller name
C16_Better(x, y) ==
  \/ FLess(y[4], x[4])
  \/ FEq(x[4], y[4]) /\ StrLess(x[1], y[1])

\* C16: the returned list has min(max_results, n) elements of the n kept entries, in
\* sorted order, and no kept entry that is left out is better than a returned one.
C16_TruncationKeepsBest ==
  Returned =>
    LET n == Len(last.kept)
        retNames == {last.ret[i][1] : i \in 1..Len(last.ret)}
    IN  /\ Len(last.ret) = IF last.max_results < n THEN last.max_results ELSE n
        /\ \A i \in 1..Len(last.ret) :
              \E k \in 1..n : /\ last.kept[k][1] = last.ret[i][1]
                              /\ last.kept[k][4] = last.ret[i][4]
        /\ \A i \in 1..(Len(last.ret) - 1) : C16_Better(last.ret[i], last.ret[i + 1])
        /\ \A k \in 1..n :
              last.kept[k][1] \notin retNames
                => \A i \in 1..Len(last.ret) : ~C16_Better(last.kept[k], last.ret[i])

\* two entries are kept, one is returned, and the one left out comes first in the
\* catalog
C16_Witness ==
  /\ Returned
  /\ Len(last.kept) = 2
  /\ Len(last.ret) = 1
  /\ last.ret[1][1] = last.kept[2][1]

\* C18: the matched variant of every result is a member of _expand_variants(name)
\* that is not a bare form word; the raw name is never used in its place.
C18_VariantIsScoredVariant ==
  Returned => \A i \in 1..Len(last.ret) :
                LET ev == _expand_variants(last.ret[i][1])
                IN  /\ ~ev.raised
                    /\ last.ret[i][2] \in ev.value
                    /\ ~(Cardinality(CandTokens(last.ret[i][2])) = 1
                         /\ CandTokens(last.ret[i][2]) \subseteq FORMS)

\* a result for a name some variants of which are bare form words
C18_Witness ==
  /\ Returned
  /\ \E i \in 1..Len(last.ret) :
        /\ last.ret[i][1] \in {NameACreamGel, NameOintmentGel}
        /\ last.ret[i][2] # lower(last.ret[i][1])

(***************************************************************************)
(* Properties of the threaded server                                       *)
(***************************************************************************)
\* thread t has answered with the results page
Answered(t) == pc[t] = "done" /\ frame[t].page = "results"

\* a step of a running match_instructions call of some thread
MatchStep == \E t \in Threads : TakeSnapshot(t) \/ ScoreAndRender(t)

\* every (name, payload) of the answer of t is an entry of the snapshot t read
PairsOfSnapshot(t) ==
  \A i \in 1..Len(frame[t].matches) :
     \E j \in 1..Len(frame[t].instructions_db) :
        /\ frame[t].instructions_db[j][1] = frame[t].matches[i][1]
        /\ frame[t].instructions_db[j][2] = frame[t].matches[i][3]

\* every name of the answer of t is a key of the snapshot t read, and its payload is
\* the payload of that key without the white space at both ends
StrippedPairsOfSnapshot(t) ==
  \A i \in 1..Len(frame[t].matches) :
     \E j \in 1..Len(frame[t].instructions_db) :
        /\ frame[t].instructions_db[j][1] = frame[t].matches[i][1]
        /\ StripChars(frame[t].instructions_db[j][2], Whitespace) = frame[t].matches[i][3]

\* C12 as claimed: whatever the admin routes do while a call runs, every returned
\* (name, payload) pair is an entry of the snapshot the call read at its start, and
\* no step of the call writes to the table.
C12_PairsOfOneSnapshot ==
  /\ [](\A t \in Threads : Answered(t) => PairsOfSnapshot(t))
  /\ [][MatchStep => UNCHANGED << rows, nextId >>]_vars

\* C12 as amended: every returned name is a key of the snapshot the call read at its
\* start and the returned payload is that key's payload with the white space at both
\* ends removed, and no step of the call writes to the table.
C12_StrippedPairsOfOneSnapshot ==
  /\ [](\A t \in Threads : Answered(t) => StrippedPairsOfSnapshot(t))
  /\ [][MatchStep => UNCHANGED << rows, nextId >>]_vars

\* a call answered with a match from its snapshot after the table had changed
C12_Witness ==
  \E t \in Threads :
     /\ Answered(t)
     /\ frame[t].matches # << >>
     /\ frame[t].instructions_db # get_all_drugs_dict

\* C13: when extract_text_from_image fails (an exception while processing, or no
\* readable text from either engine), patient_upload neither runs the matcher on the
\* failure message nor answers with a results page computed from it.
C13_OcrFailureNotMatched ==
  \A t \in Threads :
     frame[t].failed => (pc[t] # "score" /\ frame[t].page # "results")

\* C17: whatever the interleaving of the requests, easyocr.Reader is instantiated at
\* most once and every caller of _get_reader receives the same Reader object.
C17_ReaderConstructedOnce ==
  /\ made <= 1
  /\ \A t, u \in Threads :
        (frame[t].reader # 0 /\ frame[u].reader # 0) => frame[t].reader = frame[u].reader

====
